---- MODULE Spec2Model ----
(***************************************************************************)
(* State-machine model of the claim-protocol contract (src/src/lib.rs).    *)
(*                                                                         *)
(* Every public method of the contract is one action.  A method call runs  *)
(* to completion; the promises it creates run later as separate receipts,  *)
(* so a callback (on_transfer_complete, on_link_account_verified) is an    *)
(* action of its own that takes one continuation out of `inflight`.  A     *)
(* panic reverts the whole receipt, so a call that panics is no step at    *)
(* all: for each method, <method>_panic gives the panic message the code   *)
(* raises for the arguments ("" when it raises none), checked in the       *)
(* code's order, and the action is enabled only when it is "".             *)
(*                                                                         *)
(* Strings that the contract transforms (platform, handle) are sequences   *)
(* of one-character strings; account ids and token ids are atoms.          *)
(* Time is counted in units of 90 days, so the expiration period is 1      *)
(* unit; the batch ceiling of claim() is scaled from 100 to 2.             *)
(***************************************************************************)
EXTENDS Integers, Sequences, FiniteSets, Bags, TLC

\* ---------------------------------------------------------------- bounds
\* Claims the environment lets accumulate (ids 1..MaxClaims) under Spec,
\* under IntakeSpec and under DrainSpec.
MaxClaims == 2
IntakeClaims == 2
DrainClaims == 3
\* Claims the environment lets accumulate under AssetSpec.
AssetClaims == 1
\* Claims the environment lets accumulate under KeySpec.
KeyClaims == 2
\* Largest block timestamp.
MaxTime == 1
\* Most callbacks waiting for their promise result at one time.
MaxInflight == 2

\* ------------------------------------------------------ program constants
CLAIM_EXPIRATION_PERIOD == 1
MAX_CLAIMS_PER_BATCH == 2

\* ------------------------------------------------------------ input sets
owner_id == "bob"
Accounts == {"alice", "bob"}
TokenContracts == {"token"}
\* Accounts that send deposits.
Senders == {"alice"}
Callers == Accounts \cup TokenContracts
TokenIds == {"n1"}
Amounts == {0, 1}
\* (platform, handle) arguments as the caller writes them.
RawHandles == { << <<"T">>, <<"a">> >>, << <<"t">>, <<"A">> >>, << <<"t">>, <<"b">> >> }
\* The handles whose owner can produce an identity proof.
ProvableHandles == {rh \in RawHandles : rh[2] \in {<<"a">>, <<"A">>}}
\* (platform, handle) arguments with the separator of the handle key in
\* them, and two that differ only in case.
KeyHandles == { << <<"a", ":", "b">>, <<"c">> >>, << <<"a">>, <<"b", ":", "c">> >>,
                << <<"A">>, <<"b">> >>, << <<"a">>, <<"B">> >> }
NoHandle == << <<>>, <<>> >>
NoAccount == "-"

\* ----------------------------------------------------------- SocialHandle
LowerChar(c) ==
    CASE c = "A" -> "a"
      [] c = "B" -> "b"
      [] c = "T" -> "t"
      [] OTHER -> c

to_lowercase(s) == [i \in 1..Len(s) |-> LowerChar(s[i])]

SocialHandleNew(platform, handle) == << to_lowercase(platform), to_lowercase(handle) >>

SocialHandleToString(sh) == sh[1] \o <<":">> \o sh[2]

HandleKey(platform, handle) == SocialHandleToString(SocialHandleNew(platform, handle))

\* ------------------------------------------------------------------ Claim
NearType == [tag |-> "Near", contract_id |-> NoAccount, token_id |-> ""]
FtType(contract_id) == [tag |-> "FungibleToken", contract_id |-> contract_id, token_id |-> ""]
NftType(contract_id, token_id) ==
    [tag |-> "NonFungibleToken", contract_id |-> contract_id, token_id |-> token_id]

\* Mutant of NewClaim: the expiration period is not added.
NewClaimExpiringAtOnce(claim_type, tipper, amount, t) ==
    [claim_type |-> claim_type, amount |-> amount, tipper |-> tipper,
     timestamp |-> t, expires_at |-> t, claimed |-> FALSE]

NewClaim(claim_type, tipper, amount, t) ==
    [claim_type |-> claim_type, amount |-> amount, tipper |-> tipper,
     timestamp |-> t, expires_at |-> t + CLAIM_EXPIRATION_PERIOD, claimed |-> FALSE]

new_near(tipper, amount, t) == NewClaim(NearType, tipper, amount, t)
new_ft(tipper, contract_id, amount, t) == NewClaim(FtType(contract_id), tipper, amount, t)
new_nft(tipper, contract_id, token_id, t) == NewClaim(NftType(contract_id, token_id), tipper, 0, t)

\* Mutant of is_expired: the boundary instant counts as not yet expired.
is_expired_after(claim, t) == t > claim.expires_at

is_expired(claim, t) == t >= claim.expires_at

token_type(claim) ==
    CASE claim.claim_type.tag = "Near" -> "NEAR"
      [] claim.claim_type.tag = "FungibleToken" -> "FT"
      [] OTHER -> "NFT"

\* ------------------------------------------------------------------ state
VARIABLES
    linked_accounts,   \* handle key -> account          (Contract.linked_accounts)
    next_claim_id,     \*                                (Contract.next_claim_id)
    claims_by_id,      \* claim id -> Claim              (Contract.claims_by_id)
    handle_claims,     \* handle key -> ids, in iteration order (Contract.handle_claims)
    supported_tokens,  \* registered token contracts     (Contract.supported_tokens)
    paused,            \*                                (Contract.paused)
    now,               \* env::block_timestamp()
    inflight,          \* bag of callbacks whose promise has not resolved yet
    tip_reclaimed,     \* claim ids for which tip_reclaimed has been logged
    lastOp,            \* the receipt executed last: method, arguments, outcome
    out,               \* promises created by the receipt executed last
    log                \* events logged by the receipt executed last

contract == << linked_accounts, next_claim_id, claims_by_id, handle_claims,
               supported_tokens, paused >>
vars == << linked_accounts, next_claim_id, claims_by_id, handle_claims,
           supported_tokens, paused, now, inflight, tip_reclaimed, lastOp, out, log >>

\* ------------------------------------------------- promises and callbacks
NoCallback ==
    [cb |-> "none", social_handle |-> NoHandle, token_type |-> "", claim_id |-> 0,
     account |-> NoAccount, reclaim_trf |-> "None"]

TransferCallback(sh, tt, claim_id, recipient, reclaim_trf) ==
    [cb |-> "on_transfer_complete", social_handle |-> sh, token_type |-> tt,
     claim_id |-> claim_id, account |-> recipient, reclaim_trf |-> reclaim_trf]

\* Mutant of LinkCallback: the continuation carries the owner, not the caller.
LinkCallbackToOwner(sh, account_id) ==
    [cb |-> "on_link_account_verified", social_handle |-> sh, token_type |-> "",
     claim_id |-> 0, account |-> owner_id, reclaim_trf |-> "None"]

LinkCallback(sh, account_id) ==
    [cb |-> "on_link_account_verified", social_handle |-> sh, token_type |-> "",
     claim_id |-> 0, account |-> account_id, reclaim_trf |-> "None"]

\* One outbound call: the method, the contract that receives it, the account
\* and asset named in its arguments, and the callback chained with .then().
Call(method, receiver, to, amount, token_id, callback) ==
    [method |-> method, receiver |-> receiver, to |-> to, amount |-> amount,
     token_id |-> token_id, then |-> callback]

\* Mutant of ClaimTransfer: every asset goes out as a native transfer.
ClaimTransferAllNative(claim, to, callback) ==
    Call("transfer", to, to, claim.amount, "", callback)

\* The outbound transfer of a claim's asset to `to`, by asset variant.
ClaimTransfer(claim, to, callback) ==
    CASE claim.claim_type.tag = "Near" ->
            Call("transfer", to, to, claim.amount, "", callback)
      [] claim.claim_type.tag = "FungibleToken" ->
            Call("ft_transfer", claim.claim_type.contract_id, to, claim.amount, "", callback)
      [] OTHER ->
            Call("nft_transfer", claim.claim_type.contract_id, to, 0,
                 claim.claim_type.token_id, callback)

RECURSIVE Callbacks(_)
Callbacks(calls) ==
    IF calls = <<>> THEN EmptyBag
    ELSE IF Head(calls).then.cb = "none" THEN Callbacks(Tail(calls))
    ELSE SetToBag({Head(calls).then}) (+) Callbacks(Tail(calls))

\* ----------------------------------------------------------------- events
Event(name, sh, amount, tt, account) ==
    [event |-> name, platform |-> sh[1], handle |-> sh[2], amount |-> amount,
     token_type |-> tt, account |-> account]

\* ---------------------------------------------------------------- receipts
\* What is kept of the receipt executed last: the method, its predecessor, the
\* social handle, amount, token id and claim id among its arguments, for a
\* callback the reclaim marker and the promise result it was given, and the
\* value returned (or the panic of a callback).
Args(amount, token_id, claim_id, reclaim_trf, result) ==
    [amount |-> amount, token_id |-> token_id, claim_id |-> claim_id,
     reclaim_trf |-> reclaim_trf, result |-> result]

NoArgs == Args(0, "", 0, "None", "")

Receipt(op, caller, sh, args, ret) ==
    [op |-> op, caller |-> caller, social_handle |-> sh, args |-> args, ret |-> ret]

\* Mutant of Done: a token notification that forwards returns the deposit.
DoneReturningDeposit(op, caller, sh, args, ret, calls, events) ==
    /\ lastOp' = Receipt(op, caller, sh, args,
                         IF calls # <<>> /\ op = "ft_on_transfer" THEN "U128(1)"
                         ELSE IF calls # <<>> /\ op = "nft_on_transfer" THEN "true"
                         ELSE ret)
    /\ out' = calls
    /\ log' = events
    /\ inflight' = inflight (+) Callbacks(calls)
    /\ UNCHANGED now

\* The receipt succeeds: its promises are scheduled and its logs are kept.
Done(op, caller, sh, args, ret, calls, events) ==
    /\ lastOp' = Receipt(op, caller, sh, args, ret)
    /\ out' = calls
    /\ log' = events
    /\ inflight' = inflight (+) Callbacks(calls)
    /\ UNCHANGED now


\* ------------------------------------------------------------------- maps
MapInsert(map, k, v) == [x \in DOMAIN map \cup {k} |-> IF x = k THEN v ELSE map[x]]

SeqToSet(s) == {s[i] : i \in DOMAIN s}

\* IterableSet::insert: appended at the end unless already present.
SetInsert(ids, id) == IF id \in SeqToSet(ids) THEN ids ELSE Append(ids, id)

EmptyMap == [x \in {} |-> 0]

\* ------------------------------------------------------------------- init
Init ==
    /\ linked_accounts = EmptyMap
    /\ next_claim_id = 1
    /\ claims_by_id = EmptyMap
    /\ handle_claims = EmptyMap
    /\ supported_tokens = {}
    /\ paused = FALSE
    /\ now = 0
    /\ inflight = EmptyBag
    /\ tip_reclaimed = {}
    /\ lastOp = Receipt("new", owner_id, NoHandle, NoArgs, "()")
    /\ out = <<>>
    /\ log = <<>>

\* ------------------------------------------------------------ store_claim
\* The contract state after store_claim(social_handle, claim).
StoredClaims(claim) == MapInsert(claims_by_id, next_claim_id, claim)

\* Mutant of StoredHandleClaims: the pending set is started anew.
StoredHandleClaimsAnew(sh) ==
    MapInsert(handle_claims, SocialHandleToString(sh), << next_claim_id >>)

\* Mutant of StoredHandleClaims: the id is put into every pending set.
StoredHandleClaimsInAll(sh) ==
    LET key == SocialHandleToString(sh) IN
    [k \in DOMAIN handle_claims \cup {key} |->
        SetInsert(IF k \in DOMAIN handle_claims THEN handle_claims[k] ELSE <<>>, next_claim_id)]

\* Mutant of StoredHandleClaims: the bucket is created, the id not inserted.
StoredHandleClaimsBucketOnly(sh) ==
    LET key == SocialHandleToString(sh)
        ids == IF key \in DOMAIN handle_claims THEN handle_claims[key] ELSE <<>>
    IN  MapInsert(handle_claims, key, ids)

StoredHandleClaims(sh) ==
    LET key == SocialHandleToString(sh)
        ids == IF key \in DOMAIN handle_claims THEN handle_claims[key] ELSE <<>>
    IN  MapInsert(handle_claims, key, SetInsert(ids, next_claim_id))

\* Mutant of store_claim: the counter is not advanced.
store_claim_no_increment(sh, claim) ==
    /\ next_claim_id' = next_claim_id
    /\ claims_by_id' = StoredClaims(claim)
    /\ handle_claims' = StoredHandleClaims(sh)

store_claim(sh, claim) ==
    /\ next_claim_id' = next_claim_id + 1
    /\ claims_by_id' = StoredClaims(claim)
    /\ handle_claims' = StoredHandleClaims(sh)

ClaimCreated(sh, claim) ==
    Event("claim_created", sh, claim.amount, token_type(claim), claim.tipper)

\* --------------------------------------------------------------- tip_near
\* Mutant of tip_near_panic: the pause flag is not looked at.
tip_near_panic_while_paused(amount) ==
    IF ~(amount > 0) THEN "Requires attached deposit" ELSE ""

tip_near_panic(amount) ==
    IF paused THEN "Contract is paused"
    ELSE IF ~(amount > 0) THEN "Requires attached deposit"
    ELSE ""

tip_near(caller, platform, handle, amount) ==
    LET sh == SocialHandleNew(platform, handle)
        key == SocialHandleToString(sh)
    IN  /\ tip_near_panic(amount) = ""
        /\ IF key \in DOMAIN linked_accounts THEN
              LET recipient == linked_accounts[key] IN
              /\ Done("tip_near", caller, sh, Args(amount, "", 0, "None", ""), "Promise",
                      << Call("transfer", recipient, recipient, amount, "", NoCallback) >>,
                      << Event("tip_transferred", sh, amount, "NEAR", recipient) >>)
              /\ UNCHANGED << contract, tip_reclaimed >>
           ELSE
              LET claim == new_near(caller, amount, now) IN
              /\ store_claim(sh, claim)
              /\ Done("tip_near", caller, sh, Args(amount, "", 0, "None", ""), "()", <<>>, << ClaimCreated(sh, claim) >>)
              /\ UNCHANGED << linked_accounts, supported_tokens, paused, tip_reclaimed >>

\* ---------------------------------------------- register_token / remove_token
admin_panic(caller, msg) == IF caller # owner_id THEN msg ELSE ""

register_token(caller, token_id) ==
    /\ admin_panic(caller, "Only owner can register tokens") = ""
    /\ supported_tokens' = supported_tokens \cup {token_id}
    /\ Done("register_token", caller, NoHandle, NoArgs, "()", <<>>, <<>>)
    /\ UNCHANGED << linked_accounts, next_claim_id, claims_by_id, handle_claims, paused,
                    tip_reclaimed >>

remove_token(caller, token_id) ==
    /\ admin_panic(caller, "Only owner can remove tokens") = ""
    /\ supported_tokens' = supported_tokens \ {token_id}
    /\ Done("remove_token", caller, NoHandle, NoArgs, "()", <<>>, <<>>)
    /\ UNCHANGED << linked_accounts, next_claim_id, claims_by_id, handle_claims, paused,
                    tip_reclaimed >>

\* ------------------------------------------ ft_on_transfer / nft_on_transfer
\* The routing message: serde_json::from_str fails ("invalid"), or the value has
\* no string under "platform" / "handle", or it has both.
Msg(tag, platform, handle) == [tag |-> tag, platform |-> platform, handle |-> handle]
Msgs(H) ==
    {Msg(t, <<>>, <<>>) : t \in {"invalid", "no_platform", "no_handle"}}
        \cup {Msg("ok", rh[1], rh[2]) : rh \in H}

\* Mutant of deposit_panic: the allow-list is not consulted.
deposit_panic_any_token(caller, msg) ==
    IF paused THEN "Contract is paused"
    ELSE IF msg.tag = "invalid" THEN "Invalid message format"
    ELSE IF msg.tag = "no_platform" THEN "Missing platform field"
    ELSE IF msg.tag = "no_handle" THEN "Missing handle field"
    ELSE ""

deposit_panic(caller, msg) ==
    IF paused THEN "Contract is paused"
    ELSE IF msg.tag = "invalid" THEN "Invalid message format"
    ELSE IF msg.tag = "no_platform" THEN "Missing platform field"
    ELSE IF msg.tag = "no_handle" THEN "Missing handle field"
    ELSE IF caller \notin supported_tokens THEN "Unsupported token"
    ELSE ""

\* Mutant of ft_on_transfer: the deposit is escrowed even when the handle is linked.
ft_on_transfer_escrows(caller, sender_id, amount, msg) ==
    LET sh == SocialHandleNew(msg.platform, msg.handle)
        claim == new_ft(sender_id, caller, amount, now)
    IN  /\ deposit_panic(caller, msg) = ""
        /\ store_claim(sh, claim)
        /\ Done("ft_on_transfer", caller, sh, Args(amount, "", 0, "None", ""), "U128(0)", <<>>,
                << ClaimCreated(sh, claim) >>)
        /\ UNCHANGED << linked_accounts, supported_tokens, paused, tip_reclaimed >>

ft_on_transfer(caller, sender_id, amount, msg) ==
    LET sh == SocialHandleNew(msg.platform, msg.handle)
        key == SocialHandleToString(sh)
    IN  /\ deposit_panic(caller, msg) = ""
        /\ IF key \in DOMAIN linked_accounts THEN
              LET recipient == linked_accounts[key] IN
              /\ Done("ft_on_transfer", caller, sh, Args(amount, "", 0, "None", ""), "U128(0)",
                      << Call("ft_transfer", caller, recipient, amount, "", NoCallback) >>,
                      << Event("tip_transferred", sh, amount, "FT", recipient) >>)
              /\ UNCHANGED << contract, tip_reclaimed >>
           ELSE
              LET claim == new_ft(sender_id, caller, amount, now) IN
              /\ store_claim(sh, claim)
              /\ Done("ft_on_transfer", caller, sh, Args(amount, "", 0, "None", ""), "U128(0)", <<>>,
                      << ClaimCreated(sh, claim) >>)
              /\ UNCHANGED << linked_accounts, supported_tokens, paused, tip_reclaimed >>

nft_on_transfer(caller, sender_id, token_id, msg) ==
    LET sh == SocialHandleNew(msg.platform, msg.handle)
        key == SocialHandleToString(sh)
    IN  /\ deposit_panic(caller, msg) = ""
        /\ IF key \in DOMAIN linked_accounts THEN
              LET recipient == linked_accounts[key] IN
              /\ Done("nft_on_transfer", caller, sh, Args(0, token_id, 0, "None", ""), "false",
                      << Call("nft_transfer", caller, recipient, 0, token_id, NoCallback) >>,
                      << Event("tip_transferred", sh, 0, "NFT", recipient) >>)
              /\ UNCHANGED << contract, tip_reclaimed >>
           ELSE
              LET claim == new_nft(sender_id, caller, token_id, now) IN
              /\ store_claim(sh, claim)
              /\ Done("nft_on_transfer", caller, sh, Args(0, token_id, 0, "None", ""), "false", <<>>,
                      << ClaimCreated(sh, claim) >>)
              /\ UNCHANGED << linked_accounts, supported_tokens, paused, tip_reclaimed >>

\* ----------------------------------------------------------- link_account
\* proof.claimInfo.context: not JSON ("invalid"), JSON without
\* extractedParameters ("no_params"), without screen_name ("no_screen_name"),
\* with a screen_name that is no string ("not_str"), or with the string given.
Context(tag, screen_name) == [tag |-> tag, screen_name |-> screen_name]
Contexts(H) ==
    {Context(t, <<>>) : t \in {"invalid", "no_params", "no_screen_name", "not_str"}}
        \cup {Context("str", rh[2]) : rh \in H}

\* Mutant of link_account_panic: an existing link is not looked for.
link_account_panic_relinks(platform, handle, context, deposit) ==
    IF paused THEN "Contract is paused"
    ELSE IF ~(deposit >= 1) THEN "Requires attached deposit"
    ELSE IF context.tag = "invalid" THEN "Failed to parse context Json for verification"
    ELSE IF context.tag = "no_params" THEN "needed params not found"
    ELSE IF context.tag = "no_screen_name" THEN "screen_name not found in extractedParameters"
    ELSE IF context.tag = "str" /\ context.screen_name # handle
         THEN "Proven handle does not match passed handle"
    ELSE ""

link_account_panic(platform, handle, context, deposit) ==
    IF paused THEN "Contract is paused"
    ELSE IF ~(deposit >= 1) THEN "Requires attached deposit"
    ELSE IF HandleKey(platform, handle) \in DOMAIN linked_accounts THEN "Handle already linked"
    ELSE IF context.tag = "invalid" THEN "Failed to parse context Json for verification"
    ELSE IF context.tag = "no_params" THEN "needed params not found"
    ELSE IF context.tag = "no_screen_name" THEN "screen_name not found in extractedParameters"
    ELSE IF context.tag = "str" /\ context.screen_name # handle
         THEN "Proven handle does not match passed handle"
    ELSE ""

link_account(caller, platform, handle, context, deposit) ==
    LET sh == SocialHandleNew(platform, handle) IN
    /\ link_account_panic(platform, handle, context, deposit) = ""
    /\ Done("link_account", caller, sh, Args(deposit, "", 0, "None", ""), "Promise",
            << Call("verify_proof", "reclaim", NoAccount, 0, "", LinkCallback(sh, caller)) >>,
            <<>>)
    /\ UNCHANGED << contract, tip_reclaimed >>

\* Receipt of a callback whose promise has resolved: the callback is consumed.
Resolved(c, result_ok, ret, events) ==
    /\ lastOp' = Receipt(c.cb, "self", c.social_handle,
                         Args(0, "", c.claim_id, c.reclaim_trf, IF result_ok THEN "Ok" ELSE "Err"),
                         ret)
    /\ out' = <<>>
    /\ log' = events
    /\ inflight' = inflight (-) SetToBag({c})
    /\ UNCHANGED now

\* Mutant of on_link_account_verified: a key that is linked keeps its account.
on_link_account_verified_first_wins(c, verification_ok) ==
    /\ c.cb = "on_link_account_verified"
    /\ IF ~verification_ok THEN
          /\ Resolved(c, FALSE, "panic: Proof verification failed", <<>>)
          /\ UNCHANGED << contract, tip_reclaimed >>
       ELSE IF SocialHandleToString(c.social_handle) \in DOMAIN linked_accounts THEN
          /\ Resolved(c, TRUE, "panic: Handle already linked", <<>>)
          /\ UNCHANGED << contract, tip_reclaimed >>
       ELSE
          /\ linked_accounts' = MapInsert(linked_accounts, SocialHandleToString(c.social_handle),
                                          c.account)
          /\ Resolved(c, TRUE, "()", << Event("account_linked", c.social_handle, 0, "", c.account) >>)
          /\ UNCHANGED << next_claim_id, claims_by_id, handle_claims, supported_tokens, paused,
                          tip_reclaimed >>

on_link_account_verified(c, verification_ok) ==
    /\ c.cb = "on_link_account_verified"
    /\ IF ~verification_ok THEN
          /\ Resolved(c, FALSE, "panic: Proof verification failed", <<>>)
          /\ UNCHANGED << contract, tip_reclaimed >>
       ELSE
          /\ linked_accounts' = MapInsert(linked_accounts, SocialHandleToString(c.social_handle),
                                          c.account)
          /\ Resolved(c, TRUE, "()", << Event("account_linked", c.social_handle, 0, "", c.account) >>)
          /\ UNCHANGED << next_claim_id, claims_by_id, handle_claims, supported_tokens, paused,
                          tip_reclaimed >>

\* ------------------------------------------------------------------ claim
\* Mutant of claim_panic: the caller is not compared with the linked account.
claim_panic_any_caller(caller, key) ==
    IF paused THEN "Contract is paused"
    ELSE IF key \notin DOMAIN linked_accounts THEN "Account must be linked before claiming."
    ELSE IF key \in DOMAIN handle_claims /\ handle_claims[key] = <<>>
         THEN "No pending claims to process."
    ELSE ""

claim_panic(caller, key) ==
    IF paused THEN "Contract is paused"
    ELSE IF key \notin DOMAIN linked_accounts THEN "Account must be linked before claiming."
    ELSE IF caller # linked_accounts[key] THEN "Only the linked account can claim tips"
    ELSE IF key \in DOMAIN handle_claims /\ handle_claims[key] = <<>>
         THEN "No pending claims to process."
    ELSE ""

\* Mutant of Take: the whole set is iterated.
TakeAll(ids, n) == ids

\* claims_ids.iter().take(MAX_CLAIMS_PER_BATCH)
Take(ids, n) == SubSeq(ids, 1, IF Len(ids) < n THEN Len(ids) ELSE n)

\* The loop body: nothing for an id without a record or with an expired one,
\* else one transfer to account_id with the on_transfer_complete callback.
RECURSIVE SettleCalls(_, _, _)
SettleCalls(ids, sh, account_id) ==
    IF ids = <<>> THEN <<>>
    ELSE LET claim_id == Head(ids)
             rest == SettleCalls(Tail(ids), sh, account_id)
         IN  IF claim_id \notin DOMAIN claims_by_id THEN rest
             ELSE IF is_expired(claims_by_id[claim_id], now) THEN rest
             ELSE << ClaimTransfer(claims_by_id[claim_id], account_id,
                        TransferCallback(sh, token_type(claims_by_id[claim_id]), claim_id,
                                         account_id, "None")) >> \o rest

ClaimCalls(sh) ==
    LET key == SocialHandleToString(sh) IN
    IF key \in DOMAIN handle_claims
    THEN SettleCalls(Take(handle_claims[key], MAX_CLAIMS_PER_BATCH), sh, linked_accounts[key])
    ELSE <<>>

claim(caller, platform, handle) ==
    LET sh == SocialHandleNew(platform, handle) IN
    /\ claim_panic(caller, SocialHandleToString(sh)) = ""
    /\ Done("claim", caller, sh, NoArgs, "()", ClaimCalls(sh), <<>>)
    /\ UNCHANGED << contract, tip_reclaimed >>

\* ---------------------------------------------------- on_transfer_complete
\* Mutant of MarkClaimed: the flag is not written back.
MarkClaimedLost(claim_id) == claims_by_id

\* Mutant of MarkClaimed: the flag of every record is set.
MarkClaimedAll(claim_id) == [id \in DOMAIN claims_by_id |-> [claims_by_id[id] EXCEPT !.claimed = TRUE]]

\* Mutant of MarkClaimed: the flag is also set on every claim with a smaller
\* id that is still unclaimed.
MarkClaimedUpTo(claim_id) ==
    [id \in DOMAIN claims_by_id |->
        IF id <= claim_id THEN [claims_by_id[id] EXCEPT !.claimed = TRUE] ELSE claims_by_id[id]]

\* claim.claimed = true
MarkClaimed(claim_id) == [claims_by_id EXCEPT ![claim_id].claimed = TRUE]

\* Mutant of on_transfer_complete: the promise result is not looked at.
on_transfer_complete_ignores_result(c, transfer_ok) ==
    /\ c.cb = "on_transfer_complete"
    /\ IF c.claim_id \notin DOMAIN claims_by_id THEN
          /\ Resolved(c, transfer_ok, "()", <<>>)
          /\ UNCHANGED << contract, tip_reclaimed >>
       ELSE LET rec == claims_by_id[c.claim_id] IN
          IF c.reclaim_trf # "None" THEN
             /\ Resolved(c, transfer_ok, "()", << Event("tip_reclaimed", c.social_handle,
                                                rec.amount, token_type(rec), rec.tipper) >>)
             /\ tip_reclaimed' = tip_reclaimed \cup {c.claim_id}
             /\ UNCHANGED contract
          ELSE
             /\ claims_by_id' = MarkClaimed(c.claim_id)
             /\ Resolved(c, transfer_ok, "()", << Event("claim_processed", c.social_handle,
                                                rec.amount, c.token_type, c.account) >>)
             /\ UNCHANGED << linked_accounts, next_claim_id, handle_claims, supported_tokens,
                             paused, tip_reclaimed >>

\* Mutant of on_transfer_complete: a successful reclaim sets the claimed flag.
on_transfer_complete_reclaim_settles(c, transfer_ok) ==
    /\ c.cb = "on_transfer_complete"
    /\ IF ~transfer_ok \/ c.claim_id \notin DOMAIN claims_by_id THEN
          /\ Resolved(c, transfer_ok, "()", <<>>)
          /\ UNCHANGED << contract, tip_reclaimed >>
       ELSE LET rec == claims_by_id[c.claim_id] IN
          IF c.reclaim_trf # "None" THEN
             /\ claims_by_id' = MarkClaimed(c.claim_id)
             /\ Resolved(c, TRUE, "()", << Event("tip_reclaimed", c.social_handle, rec.amount,
                                          token_type(rec), rec.tipper) >>)
             /\ tip_reclaimed' = tip_reclaimed \cup {c.claim_id}
             /\ UNCHANGED << linked_accounts, next_claim_id, handle_claims, supported_tokens,
                             paused >>
          ELSE
             /\ claims_by_id' = MarkClaimed(c.claim_id)
             /\ Resolved(c, TRUE, "()", << Event("claim_processed", c.social_handle, rec.amount,
                                          c.token_type, c.account) >>)
             /\ UNCHANGED << linked_accounts, next_claim_id, handle_claims, supported_tokens,
                             paused, tip_reclaimed >>

\* Mutant of on_transfer_complete: while the contract is paused a completion
\* is taken without effect.
on_transfer_complete_gated(c, transfer_ok) ==
    /\ c.cb = "on_transfer_complete"
    /\ IF paused \/ ~transfer_ok \/ c.claim_id \notin DOMAIN claims_by_id THEN
          /\ Resolved(c, transfer_ok, "()", <<>>)
          /\ UNCHANGED << contract, tip_reclaimed >>
       ELSE LET rec == claims_by_id[c.claim_id] IN
          IF c.reclaim_trf # "None" THEN
             /\ Resolved(c, TRUE, "()", << Event("tip_reclaimed", c.social_handle, rec.amount,
                                          token_type(rec), rec.tipper) >>)
             /\ tip_reclaimed' = tip_reclaimed \cup {c.claim_id}
             /\ UNCHANGED contract
          ELSE
             /\ claims_by_id' = MarkClaimed(c.claim_id)
             /\ Resolved(c, TRUE, "()", << Event("claim_processed", c.social_handle, rec.amount,
                                          c.token_type, c.account) >>)
             /\ UNCHANGED << linked_accounts, next_claim_id, handle_claims, supported_tokens,
                             paused, tip_reclaimed >>

on_transfer_complete(c, transfer_ok) ==
    /\ c.cb = "on_transfer_complete"
    /\ IF ~transfer_ok \/ c.claim_id \notin DOMAIN claims_by_id THEN
          /\ Resolved(c, transfer_ok, "()", <<>>)
          /\ UNCHANGED << contract, tip_reclaimed >>
       ELSE LET rec == claims_by_id[c.claim_id] IN
          IF c.reclaim_trf # "None" THEN
             /\ Resolved(c, TRUE, "()", << Event("tip_reclaimed", c.social_handle, rec.amount,
                                          token_type(rec), rec.tipper) >>)
             /\ tip_reclaimed' = tip_reclaimed \cup {c.claim_id}
             /\ UNCHANGED contract
          ELSE
             /\ claims_by_id' = MarkClaimed(c.claim_id)
             /\ Resolved(c, TRUE, "()", << Event("claim_processed", c.social_handle, rec.amount,
                                          c.token_type, c.account) >>)
             /\ UNCHANGED << linked_accounts, next_claim_id, handle_claims, supported_tokens,
                             paused, tip_reclaimed >>

\* ------------------------------------------------------------ reclaim_tip
\* Mutant of reclaim_tip_panic: the caller is not compared with the tipper.
reclaim_tip_panic_any_caller(caller, claim_id) ==
    IF paused THEN "Contract is paused"
    ELSE IF claim_id \notin DOMAIN claims_by_id THEN "No claims found for this handle"
    ELSE IF claims_by_id[claim_id].claimed THEN "tip has been claimed"
    ELSE IF ~is_expired(claims_by_id[claim_id], now) THEN "claim is not yet expired"
    ELSE ""

reclaim_tip_panic(caller, claim_id) ==
    IF paused THEN "Contract is paused"
    ELSE IF claim_id \notin DOMAIN claims_by_id THEN "No claims found for this handle"
    ELSE IF claims_by_id[claim_id].claimed THEN "tip has been claimed"
    ELSE IF ~is_expired(claims_by_id[claim_id], now) THEN "claim is not yet expired"
    ELSE IF caller # claims_by_id[claim_id].tipper
         THEN "Only the original tipper can reclaim funds"
    ELSE ""

\* Mutant of reclaim_tip: the handle named in the call loses its link.
reclaim_tip_unlinks(caller, platform, handle, claim_id) ==
    LET sh == SocialHandleNew(platform, handle)
        key == SocialHandleToString(sh)
    IN  /\ reclaim_tip_panic(caller, claim_id) = ""
        /\ LET rec == claims_by_id[claim_id] IN
           Done("reclaim_tip", caller, sh, Args(0, "", claim_id, "None", ""), "Promise",
                << ClaimTransfer(rec, caller,
                       TransferCallback(sh, token_type(rec), claim_id, caller, "Some(true)")) >>,
                <<>>)
        /\ linked_accounts' = [k \in DOMAIN linked_accounts \ {key} |-> linked_accounts[k]]
        /\ UNCHANGED << next_claim_id, claims_by_id, handle_claims, supported_tokens, paused,
                        tip_reclaimed >>

reclaim_tip(caller, platform, handle, claim_id) ==
    LET sh == SocialHandleNew(platform, handle) IN
    /\ reclaim_tip_panic(caller, claim_id) = ""
    /\ LET rec == claims_by_id[claim_id] IN
       Done("reclaim_tip", caller, sh, Args(0, "", claim_id, "None", ""), "Promise",
            << ClaimTransfer(rec, caller,
                   TransferCallback(sh, token_type(rec), claim_id, caller, "Some(true)")) >>,
            <<>>)
    /\ UNCHANGED << contract, tip_reclaimed >>

\* -------------------------------------------------------- pause / unpause
pause_panic(caller) ==
    IF caller # owner_id THEN "Only owner can pause the contract"
    ELSE IF paused THEN "Contract is already paused"
    ELSE ""

unpause_panic(caller) ==
    IF caller # owner_id THEN "Only owner can unpause the contract"
    ELSE IF ~paused THEN "Contract is not paused"
    ELSE ""

pause(caller) ==
    /\ pause_panic(caller) = ""
    /\ paused' = TRUE
    /\ Done("pause", caller, NoHandle, NoArgs, "()", <<>>, <<>>)
    /\ UNCHANGED << linked_accounts, next_claim_id, claims_by_id, handle_claims,
                    supported_tokens, tip_reclaimed >>

unpause(caller) ==
    /\ unpause_panic(caller) = ""
    /\ paused' = FALSE
    /\ Done("unpause", caller, NoHandle, NoArgs, "()", <<>>, <<>>)
    /\ UNCHANGED << linked_accounts, next_claim_id, claims_by_id, handle_claims,
                    supported_tokens, tip_reclaimed >>

\* ----------------------------------------------- get_pending_claims_count
get_pending_claims_count(platform, handle) ==
    LET key == HandleKey(platform, handle) IN
    IF key \in DOMAIN handle_claims
    THEN Cardinality({i \in DOMAIN handle_claims[key] :
            LET claim_id == handle_claims[key][i] IN
            IF claim_id \in DOMAIN claims_by_id
            THEN ~claims_by_id[claim_id].claimed /\ ~is_expired(claims_by_id[claim_id], now)
            ELSE FALSE})
    ELSE 0

\* ---------------------------------------------------------- block production
Tick ==
    /\ now < MaxTime
    /\ now' = now + 1
    /\ lastOp' = Receipt("block", NoAccount, NoHandle, NoArgs, "()")
    /\ out' = <<>>
    /\ log' = <<>>
    /\ UNCHANGED << contract, inflight, tip_reclaimed >>

\* ------------------------------------------------------------ environment
\* The calls the environment makes.  H is the set of (platform, handle)
\* arguments it uses and n the number of claims it lets accumulate: a deposit
\* that would create a claim is offered only while next_claim_id <= n, and a
\* call that schedules callbacks only while the bag of callbacks has room.
Room == BagCardinality(inflight') <= MaxInflight

CanDeposit(platform, handle, n) ==
    HandleKey(platform, handle) \in DOMAIN linked_accounts \/ next_claim_id <= n

TipNear(H, n) ==
    \E caller \in Senders, rh \in H, amount \in Amounts :
        /\ CanDeposit(rh[1], rh[2], n)
        /\ tip_near(caller, rh[1], rh[2], amount)

FtOnTransfer(H, n) ==
    \E caller \in Callers, sender_id \in Senders, amount \in Amounts \ {0}, msg \in Msgs(H) :
        /\ CanDeposit(msg.platform, msg.handle, n)
        /\ ft_on_transfer(caller, sender_id, amount, msg)

NftOnTransfer(H, n) ==
    \E caller \in Callers, sender_id \in Senders, token_id \in TokenIds, msg \in Msgs(H) :
        /\ CanDeposit(msg.platform, msg.handle, n)
        /\ nft_on_transfer(caller, sender_id, token_id, msg)

RegisterToken ==
    \E caller \in Accounts, token_id \in TokenContracts : register_token(caller, token_id)

RemoveToken ==
    \E caller \in Accounts, token_id \in TokenContracts : remove_token(caller, token_id)

LinkAccount(H, A) ==
    \E caller \in A, rh \in H, context \in Contexts(H), deposit \in {0, 1} :
        /\ link_account(caller, rh[1], rh[2], context, deposit)
        /\ Room

OnLinkAccountVerified(results) ==
    \E c \in BagToSet(inflight), verification_ok \in results :
        on_link_account_verified(c, verification_ok)

Claim(H) ==
    \E caller \in Accounts, rh \in H :
        /\ claim(caller, rh[1], rh[2])
        /\ Room

OnTransferComplete(results) ==
    \E c \in BagToSet(inflight), transfer_ok \in results : on_transfer_complete(c, transfer_ok)

ReclaimTip(H) ==
    \E caller \in Accounts, rh \in H, claim_id \in 1..(next_claim_id - 1) :
        /\ reclaim_tip(caller, rh[1], rh[2], claim_id)
        /\ Room

Pause == \E caller \in Accounts : pause(caller)

Unpause == \E caller \in Accounts : unpause(caller)

\* ------------------------------------------------------------------- Spec
\* The claim lifecycle on one handle key, written "T"/"a" or "t"/"A", with
\* native deposits: linking (two accounts compete for the handle), settlement,
\* expiry, reclaim, and every order and outcome of the callbacks.
Next ==
    \/ TipNear(ProvableHandles, MaxClaims)
    \/ LinkAccount(ProvableHandles, Accounts)
    \/ OnLinkAccountVerified(BOOLEAN)
    \/ Claim(ProvableHandles)
    \/ OnTransferComplete(BOOLEAN)
    \/ ReclaimTip(ProvableHandles)
    \/ Tick

Spec == Init /\ [][Next]_vars

\* ------------------------------------------------------------- IntakeSpec
\* Deposit intake of the three asset kinds on two handle keys, one of which
\* gets linked, with the owner registering and removing the token contract.
IntakeNext ==
    \/ TipNear(RawHandles, IntakeClaims)
    \/ FtOnTransfer(RawHandles, IntakeClaims)
    \/ NftOnTransfer(RawHandles, IntakeClaims)
    \/ RegisterToken
    \/ RemoveToken
    \/ LinkAccount(ProvableHandles, {"bob"})
    \/ OnLinkAccountVerified(BOOLEAN)
    \/ Tick

IntakeSpec == Init /\ [][IntakeNext]_vars

\* -------------------------------------------------------------- DrainSpec
\* The owner of a handle drains its backlog: native deposits pile up on the
\* handle, the owner links it and then keeps calling claim; no time passes,
\* every promise succeeds, and claim is called again only when every callback
\* of the call before has run.  The runtime runs every scheduled callback, and
\* the owner's repeated calls are the scenario: both are weakly fair.
DrainHandles == { << <<"T">>, <<"a">> >> }
DrainKey == HandleKey(<<"T">>, <<"a">>)

DrainClaim == inflight = EmptyBag /\ Claim(DrainHandles)

DrainNext ==
    \/ TipNear(DrainHandles, DrainClaims)
    \/ LinkAccount(DrainHandles, Accounts)
    \/ OnLinkAccountVerified({TRUE})
    \/ DrainClaim
    \/ OnTransferComplete({TRUE})

DrainSpec ==
    /\ Init
    /\ [][DrainNext]_vars
    /\ WF_vars(DrainClaim)
    /\ WF_vars(OnLinkAccountVerified({TRUE}))
    /\ WF_vars(OnTransferComplete({TRUE}))

\* -------------------------------------------------------------- AssetSpec
\* The claim lifecycle on one handle with deposits of the three asset kinds:
\* the owner registers the token contract, deposits are escrowed or forwarded,
\* the handle is linked, claims are settled or, once expired, reclaimed.
AssetNext ==
    \/ TipNear(DrainHandles, AssetClaims)
    \/ FtOnTransfer(DrainHandles, AssetClaims)
    \/ NftOnTransfer(DrainHandles, AssetClaims)
    \/ RegisterToken
    \/ LinkAccount(DrainHandles, {"bob"})
    \/ OnLinkAccountVerified(BOOLEAN)
    \/ Claim(DrainHandles)
    \/ OnTransferComplete(BOOLEAN)
    \/ ReclaimTip(DrainHandles)
    \/ Tick

AssetSpec == Init /\ [][AssetNext]_vars

\* ---------------------------------------------------------------- KeySpec
\* Deposits, links and settlement on handles whose platform or handle holds
\* the ':' that SocialHandle::to_string puts between the two.
KeyNext ==
    \/ TipNear(KeyHandles, KeyClaims)
    \/ LinkAccount(KeyHandles, {"bob"})
    \/ OnLinkAccountVerified(BOOLEAN)
    \/ Claim(KeyHandles)
    \/ OnTransferComplete({TRUE})

KeySpec == Init /\ [][KeyNext]_vars

\* -------------------------------------------------------------- BatchSpec
\* One claim call at a time on a backlog larger than the batch ceiling: the
\* call is made when no callback is waiting, and whatever it dispatches is
\* scheduled, so the size of a batch is the contract's doing alone.
BatchClaim ==
    /\ inflight = EmptyBag
    /\ \E caller \in Accounts, rh \in DrainHandles : claim(caller, rh[1], rh[2])

BatchNext ==
    \/ TipNear(DrainHandles, DrainClaims)
    \/ LinkAccount(DrainHandles, {"bob"})
    \/ OnLinkAccountVerified({TRUE})
    \/ BatchClaim
    \/ OnTransferComplete(BOOLEAN)
    \/ Tick

BatchSpec == Init /\ [][BatchNext]_vars

\* -------------------------------------------------------------- AdminSpec
\* The lifecycle of AssetSpec with the owner pausing and unpausing the
\* contract at any moment, also while callbacks are waiting.
AdminNext ==
    \/ Pause
    \/ Unpause
    \/ TipNear(DrainHandles, AssetClaims)
    \/ FtOnTransfer(DrainHandles, AssetClaims)
    \/ NftOnTransfer(DrainHandles, AssetClaims)
    \/ RegisterToken
    \/ LinkAccount(DrainHandles, {"bob"})
    \/ OnLinkAccountVerified(BOOLEAN)
    \/ Claim(DrainHandles)
    \/ OnTransferComplete(BOOLEAN)
    \/ ReclaimTip(DrainHandles)
    \/ Tick

AdminSpec == Init /\ [][AdminNext]_vars

\* ------------------------------------------------------------ ReclaimSpec
\* Deposits to two unlinked handles that expire and are reclaimed, the
\* reclaim call naming either handle.
ReclaimNext ==
    \/ TipNear(RawHandles, MaxClaims)
    \/ Tick
    \/ ReclaimTip(RawHandles)
    \/ OnTransferComplete(BOOLEAN)

ReclaimSpec == Init /\ [][ReclaimNext]_vars

\* ================================================================== claims
\* The transfers with an on_transfer_complete callback among the promises
\* created by the receipt executed in this step.
DispatchedNow == {i \in DOMAIN out' : out'[i].then.cb = "on_transfer_complete"}

PendingIds(key) == IF key \in DOMAIN handle_claims THEN SeqToSet(handle_claims[key]) ELSE {}

\* C1: in every reachable state, a claim whose claimed flag is true is in no
\* handle's pending set.
C1_SettledNotPending ==
    \A key \in DOMAIN handle_claims : \A id \in PendingIds(key) :
        id \in DOMAIN claims_by_id => ~claims_by_id[id].claimed

\* C2: a claim or reclaim_tip call never dispatches a transfer for a claim
\* whose claimed flag is already true.
C2_NoDispatchOnceSettled ==
    [][lastOp'.op \in {"claim", "reclaim_tip"} =>
          \A i \in DispatchedNow : ~claims_by_id[out'[i].then.claim_id].claimed]_vars

\* C3: after a reclaim of a claim has completed successfully (tip_reclaimed
\* was logged for it), no reclaim_tip call dispatches a transfer for that claim.
C3_ReclaimOnce ==
    [][lastOp'.op = "reclaim_tip" =>
          \A i \in DispatchedNow : out'[i].then.claim_id \notin tip_reclaimed]_vars

\* C4: a transfer dispatched for a claim at a time >= its expires_at is never
\* dispatched by claim: it comes from reclaim_tip called by the claim's tipper
\* and goes to the tipper.
C4_ExpiredOnlyByReclaim ==
    [][\A i \in DispatchedNow :
          LET id == out'[i].then.claim_id IN
          now >= claims_by_id[id].expires_at =>
              /\ lastOp'.op = "reclaim_tip"
              /\ lastOp'.caller = claims_by_id[id].tipper
              /\ out'[i].to = claims_by_id[id].tipper
              /\ out'[i].then.reclaim_trf = "Some(true)"]_vars

\* C4 witness: claim() has just run on a handle whose pending set holds an
\* expired claim, and dispatched nothing for it.
C4_Witness ==
    /\ lastOp.op = "claim"
    /\ \E id \in PendingIds(SocialHandleToString(lastOp.social_handle)) :
          /\ now >= claims_by_id[id].expires_at
          /\ \A i \in DOMAIN out : out[i].then.claim_id # id

\* C5: once linked_accounts maps a handle key to an account, no step changes
\* or removes that entry.
C5_LinkWriteOnce ==
    [][\A key \in DOMAIN linked_accounts :
          /\ key \in DOMAIN linked_accounts'
          /\ linked_accounts'[key] = linked_accounts[key]]_vars

\* C6: on_transfer_complete with a success result and no reclaim marker, for a
\* claim that is already claimed, changes no contract state and logs no event.
C6_DuplicateCompletionSilent ==
    [][(/\ lastOp'.op = "on_transfer_complete"
        /\ lastOp'.args.result = "Ok"
        /\ lastOp'.args.reclaim_trf = "None"
        /\ lastOp'.args.claim_id \in DOMAIN claims_by_id
        /\ claims_by_id[lastOp'.args.claim_id].claimed)
       => (UNCHANGED contract /\ log' = <<>>)]_vars

\* The pending claims of DrainKey that are neither claimed nor expired.
Unsettled == {id \in PendingIds(DrainKey) :
                 ~claims_by_id[id].claimed /\ now < claims_by_id[id].expires_at}

\* C7: when the linked handle has more unsettled pending claims than the batch
\* ceiling, repeated claim calls whose transfers all succeed eventually leave
\* every claim of the handle claimed.
C7_BacklogDrains ==
    (DrainKey \in DOMAIN linked_accounts /\ Cardinality(Unsettled) > MAX_CLAIMS_PER_BATCH)
        ~> (\A id \in PendingIds(DrainKey) : claims_by_id[id].claimed)

\* A native deposit to an unlinked handle raises its pending count by 1.
DepositCountsOne ==
    \A rh \in RawHandles :
        (/\ lastOp'.op = "tip_near"
         /\ lastOp'.social_handle = SocialHandleNew(rh[1], rh[2])
         /\ HandleKey(rh[1], rh[2]) \notin DOMAIN linked_accounts)
        => get_pending_claims_count(rh[1], rh[2])' = get_pending_claims_count(rh[1], rh[2]) + 1

\* The linked account has called claim and every transfer it dispatched has
\* completed successfully (under DrainSpec no callback fails).
ClaimCompleted ==
    /\ lastOp.op = "on_transfer_complete"
    /\ inflight = EmptyBag

\* C8 as stated: a native deposit to an unlinked handle raises its pending
\* count by 1, and once claim has run and all its transfers have completed
\* successfully the pending count of the handle is 0.
C8_PendingBackToZero ==
    /\ [][DepositCountsOne]_vars
    /\ [](ClaimCompleted => get_pending_claims_count(<<"T">>, <<"a">>) = 0)

\* C8 amended: the same, for a handle whose pending set held at most
\* MAX_CLAIMS_PER_BATCH ids when claim was called.
C8_PendingBackToZeroWithinBatch ==
    /\ [][DepositCountsOne]_vars
    /\ [](ClaimCompleted /\ Len(handle_claims[DrainKey]) <= MAX_CLAIMS_PER_BATCH
            => get_pending_claims_count(<<"T">>, <<"a">>) = 0)

\* C8 witness: deposits were made, the handle was linked, claim ran and all of
\* its transfers completed; nothing is pending.
C8_Witness ==
    /\ ClaimCompleted
    /\ DrainKey \in DOMAIN linked_accounts
    /\ Len(handle_claims[DrainKey]) = MAX_CLAIMS_PER_BATCH
    /\ get_pending_claims_count(<<"T">>, <<"a">>) = 0

\* The transfer that forwards the deposit of the receipt executed in this step.
ForwardOf(receipt, recipient) ==
    CASE receipt.op = "tip_near" ->
            Call("transfer", recipient, recipient, receipt.args.amount, "", NoCallback)
      [] receipt.op = "ft_on_transfer" ->
            Call("ft_transfer", receipt.caller, recipient, receipt.args.amount, "", NoCallback)
      [] OTHER ->
            Call("nft_transfer", receipt.caller, recipient, 0, receipt.args.token_id, NoCallback)

DepositOps == {"tip_near", "ft_on_transfer", "nft_on_transfer"}

\* C9: a deposit to a handle that is linked creates exactly one promise, the
\* transfer of the whole deposit to the linked account, and leaves
\* claims_by_id, handle_claims and next_claim_id unchanged.
C9_LinkedDepositForwards ==
    [][(/\ lastOp'.op \in DepositOps
        /\ SocialHandleToString(lastOp'.social_handle) \in DOMAIN linked_accounts)
       => /\ out' = << ForwardOf(lastOp', linked_accounts[SocialHandleToString(lastOp'.social_handle)]) >>
          /\ UNCHANGED << claims_by_id, handle_claims, next_claim_id >>]_vars

\* C9 witness: a fungible-token deposit to a linked handle has just been
\* forwarded while claims of other deposits are in escrow.
C9_Witness ==
    /\ lastOp.op = "ft_on_transfer"
    /\ SocialHandleToString(lastOp.social_handle) \in DOMAIN linked_accounts
    /\ Len(out) = 1
    /\ next_claim_id > 1

BadMsgs == {m \in Msgs(RawHandles) : m.tag # "ok"}

\* C10: a deposit notification from a caller that is not in supported_tokens,
\* or with a routing message that is not JSON or lacks platform or handle,
\* panics, so no step of ft_on_transfer or nft_on_transfer comes from one:
\* nothing is created or changed by it.
C10_RejectedDepositNoEffect ==
    /\ [](\A caller \in Callers, msg \in Msgs(RawHandles) :
            (caller \notin supported_tokens \/ msg \in BadMsgs) => deposit_panic(caller, msg) # "")
    /\ [][lastOp'.op \in {"ft_on_transfer", "nft_on_transfer"} =>
            /\ lastOp'.caller \in supported_tokens
            /\ \E rh \in RawHandles : lastOp'.social_handle = SocialHandleNew(rh[1], rh[2])]_vars

\* C10 witness: with claims in escrow and the token contract registered, a
\* notification from another caller and one with a malformed message are
\* both rejected.
C10_Witness ==
    /\ next_claim_id > 1
    /\ "token" \in supported_tokens
    /\ ~paused
    /\ \E m \in Msgs(RawHandles) : m.tag = "ok" /\ deposit_panic("alice", m) = "Unsupported token"
    /\ \A m \in BadMsgs : deposit_panic("token", m) # ""
\* The ids visited by claim() on the handle key: the first batch.
Visited(key) ==
    IF key \in DOMAIN handle_claims
    THEN SeqToSet(Take(handle_claims[key], MAX_CLAIMS_PER_BATCH))
    ELSE {}

\* C11: every expired claim visited by a claim call is out of the handle's
\* pending set when the call has ended.
C11_ExpiredPruned ==
    [][lastOp'.op = "claim" =>
          \A id \in Visited(SocialHandleToString(lastOp'.social_handle)) :
              now >= claims_by_id[id].expires_at =>
                  id \notin SeqToSet(handle_claims'[SocialHandleToString(lastOp'.social_handle)])]_vars

\* C12: claim, reclaim_tip, on_transfer_complete, tip_near, ft_on_transfer and
\* nft_on_transfer leave linked_accounts as it was.
C12_LinksUntouched ==
    [][lastOp'.op \in {"claim", "reclaim_tip", "on_transfer_complete"} \cup DepositOps
          => linked_accounts' = linked_accounts]_vars

\* C12 witness: the tipper has just reclaimed an expired token claim of a
\* handle that is linked, and the link is in place.
C12_Witness ==
    /\ lastOp.op = "reclaim_tip"
    /\ SocialHandleToString(lastOp.social_handle) \in DOMAIN linked_accounts
    /\ claims_by_id[lastOp.args.claim_id].claim_type.tag # "Near"

\* The receipt executed last is on_transfer_complete with a failure result.
FailedCompletion == lastOp.op = "on_transfer_complete" /\ lastOp.args.result = "Err"

\* The claim of the failed transfer, if unsettled, can be dispatched again:
\* once expired by reclaim_tip of its tipper, before that by claim of the
\* account linked to the handle.
Retryable ==
    LET id == lastOp.args.claim_id
        sh == lastOp.social_handle
        key == SocialHandleToString(sh)
    IN  ~claims_by_id[id].claimed =>
            IF now >= claims_by_id[id].expires_at
            THEN reclaim_tip_panic(claims_by_id[id].tipper, id) = ""
            ELSE /\ key \in DOMAIN linked_accounts
                 /\ claim_panic(linked_accounts[key], key) = ""
                 /\ \E i \in DOMAIN ClaimCalls(sh) : ClaimCalls(sh)[i].then.claim_id = id

\* C13: on_transfer_complete with a failure result leaves claims_by_id,
\* handle_claims, linked_accounts and next_claim_id unchanged, and afterwards
\* a claim or reclaim_tip call can dispatch a transfer for the claim again.
C13_FailureKeepsPending ==
    /\ [][(lastOp'.op = "on_transfer_complete" /\ lastOp'.args.result = "Err")
            => UNCHANGED << claims_by_id, handle_claims, linked_accounts, next_claim_id >>]_vars
    /\ [](FailedCompletion => Retryable)

\* C13 witness: a settlement transfer has failed; its claim is unsettled,
\* not expired and still in the pending set of the handle.
C13_Witness ==
    /\ FailedCompletion
    /\ lastOp.args.reclaim_trf = "None"
    /\ ~claims_by_id[lastOp.args.claim_id].claimed
    /\ now < claims_by_id[lastOp.args.claim_id].expires_at
    /\ lastOp.args.claim_id \in PendingIds(SocialHandleToString(lastOp.social_handle))

\* The preconditions of a reclaim: the claim exists, is unsettled, has
\* expired, and the caller is its tipper.
ReclaimAllowed(caller, claim_id) ==
    /\ claim_id \in DOMAIN claims_by_id
    /\ ~claims_by_id[claim_id].claimed
    /\ now >= claims_by_id[claim_id].expires_at
    /\ caller = claims_by_id[claim_id].tipper

\* C14: a reclaim_tip call for which one of the preconditions fails panics,
\* and every reclaim_tip receipt (the only ones that dispatch a transfer) was
\* called with all of them true.
C14_ReclaimPreconditions ==
    /\ [](\A caller \in Accounts, claim_id \in 1..next_claim_id :
            ~ReclaimAllowed(caller, claim_id) => reclaim_tip_panic(caller, claim_id) # "")
    /\ [][lastOp'.op = "reclaim_tip"
            => ReclaimAllowed(lastOp'.caller, lastOp'.args.claim_id)]_vars

\* C14 witness: claim 1 is settled and claim 2 has expired unsettled; the
\* tipper's reclaim of claim 1, another account's reclaim of claim 2 and a
\* reclaim of an id that was never assigned are all rejected.
C14_Witness ==
    /\ next_claim_id = 3
    /\ reclaim_tip_panic(claims_by_id[1].tipper, 1) = "tip has been claimed"
    /\ reclaim_tip_panic("bob", 2) = "Only the original tipper can reclaim funds"
    /\ reclaim_tip_panic("alice", 3) = "No claims found for this handle"

\* C15: a claim call for a handle that is not linked, or by a caller other
\* than the account linked to the handle key, panics; every claim receipt was
\* called by the account linked to its handle key.
C15_ClaimOnlyByLinked ==
    /\ [](\A caller \in Accounts, rh \in ProvableHandles :
            LET key == HandleKey(rh[1], rh[2]) IN
            (key \notin DOMAIN linked_accounts \/ caller # linked_accounts[key])
                => claim_panic(caller, key) # "")
    /\ [][lastOp'.op = "claim" =>
            LET key == SocialHandleToString(lastOp'.social_handle) IN
            /\ key \in DOMAIN linked_accounts
            /\ lastOp'.caller = linked_accounts[key]]_vars

\* C15 witness: the handle is linked to bob and has an unsettled claim in
\* its pending set; alice's claim call is rejected, bob's is not.
C15_Witness ==
    LET key == HandleKey(<<"T">>, <<"a">>) IN
    /\ key \in DOMAIN linked_accounts
    /\ linked_accounts[key] = "bob"
    /\ \E id \in PendingIds(key) : ~claims_by_id[id].claimed /\ now < claims_by_id[id].expires_at
    /\ claim_panic("alice", key) = "Only the linked account can claim tips"
    /\ claim_panic("bob", key) = ""

\* C16: a claim call by the linked account for a handle with no pending
\* claims aborts, so no claim receipt runs to its end on a handle whose
\* pending set is missing or empty.
C16_NoPendingAborts ==
    [][lastOp'.op = "claim" =>
          PendingIds(SocialHandleToString(lastOp'.social_handle)) # {}]_vars

\* C17: the claimed flag of a claim changes only from false to true, and only
\* in on_transfer_complete given a success result and no reclaim marker for
\* that claim.
C17_ClaimedSetOnlyBySettlement ==
    [][\A id \in DOMAIN claims_by_id :
          claims_by_id'[id].claimed # claims_by_id[id].claimed =>
              /\ ~claims_by_id[id].claimed
              /\ lastOp'.op = "on_transfer_complete"
              /\ lastOp'.args.result = "Ok"
              /\ lastOp'.args.reclaim_trf = "None"
              /\ lastOp'.args.claim_id = id]_vars

\* C17 witness: a settlement has just completed successfully and its claim
\* is claimed, while another claim of the handle is still unclaimed.
C17_Witness ==
    /\ lastOp.op = "on_transfer_complete"
    /\ lastOp.args.result = "Ok"
    /\ lastOp.args.reclaim_trf = "None"
    /\ claims_by_id[lastOp.args.claim_id].claimed
    /\ \E id \in DOMAIN claims_by_id : ~claims_by_id[id].claimed

\* A claim record without its claimed flag: what identifies the deposit.
Deposit(rec) == [rec EXCEPT !.claimed = FALSE]

\* C18: claim ids are 1, 2, 3, ... in the order of assignment: a new id is
\* the counter's value, greater than every id assigned before, and the
\* counter moves past it; no record of claims_by_id is deleted or given to
\* another deposit.
C18_IdsIncreaseRecordsKept ==
    /\ [](DOMAIN claims_by_id = 1..(next_claim_id - 1))
    /\ [][/\ next_claim_id' >= next_claim_id
          /\ \A id \in DOMAIN claims_by_id :
                /\ id \in DOMAIN claims_by_id'
                /\ Deposit(claims_by_id'[id]) = Deposit(claims_by_id[id])
          /\ \A id \in DOMAIN claims_by_id' \ DOMAIN claims_by_id :
                /\ id = next_claim_id
                /\ next_claim_id' = id + 1
                /\ \A old \in DOMAIN claims_by_id : id > old]_vars

\* C18 witness: two deposits got ids 1 and 2, both claims have been settled,
\* and both records are still stored.
C18_Witness ==
    /\ lastOp.op = "on_transfer_complete"
    /\ next_claim_id = 3
    /\ DOMAIN claims_by_id = {1, 2}
    /\ claims_by_id[1].claimed
    /\ claims_by_id[2].claimed

\* C19: two (platform, handle) pairs that differ after lower-casing have
\* different handle keys: whenever the contract handles two such pairs one
\* after the other, SocialHandle::new(..).to_string() of the two differ.
C19_KeysInjective ==
    [][(/\ lastOp.social_handle # NoHandle
        /\ lastOp'.social_handle # NoHandle
        /\ lastOp'.social_handle # lastOp.social_handle)
       => SocialHandleToString(lastOp'.social_handle) # SocialHandleToString(lastOp.social_handle)]_vars

\* C20: a link_account call for a handle key that is in linked_accounts
\* panics, with "Handle already linked" when the contract is not paused and a
\* deposit is attached; so every link_account receipt, the only place where a
\* proof verification is dispatched, ran for a key that was not linked.
C20_LinkedHandleNotRelinked ==
    /\ [](\A rh \in ProvableHandles, context \in Contexts(ProvableHandles), deposit \in {0, 1} :
            HandleKey(rh[1], rh[2]) \in DOMAIN linked_accounts =>
                /\ link_account_panic(rh[1], rh[2], context, deposit) # ""
                /\ (~paused /\ deposit >= 1) =>
                       link_account_panic(rh[1], rh[2], context, deposit) = "Handle already linked")
    /\ [][lastOp'.op = "link_account" =>
            SocialHandleToString(lastOp'.social_handle) \notin DOMAIN linked_accounts]_vars

\* C20 witness: the handle is linked to alice, and bob's link_account call
\* with a proof for the handle is rejected as already linked.
C20_Witness ==
    /\ HandleKey(<<"T">>, <<"a">>) \in DOMAIN linked_accounts
    /\ linked_accounts[HandleKey(<<"T">>, <<"a">>)] = "alice"
    /\ link_account_panic(<<"t">>, <<"A">>, Context("str", <<"A">>), 1) = "Handle already linked"

\* C21: linked_accounts changes only in an on_link_account_verified receipt
\* given a successful verification, which maps the key of the continuation's
\* handle to the continuation's account; that account is the caller of the
\* link_account that scheduled the continuation; a failed verification
\* changes no contract state.
C21_LinkOnlyByVerifiedContinuation ==
    /\ [][linked_accounts' # linked_accounts =>
            /\ lastOp'.op = "on_link_account_verified"
            /\ lastOp'.args.result = "Ok"
            /\ \E c \in BagToSet(inflight) :
                  /\ c.cb = "on_link_account_verified"
                  /\ inflight' = inflight (-) SetToBag({c})
                  /\ linked_accounts' = MapInsert(linked_accounts,
                                                  SocialHandleToString(c.social_handle), c.account)]_vars
    /\ [][lastOp'.op = "link_account" =>
            /\ Len(out') = 1
            /\ out'[1].then.cb = "on_link_account_verified"
            /\ out'[1].then.account = lastOp'.caller
            /\ out'[1].then.social_handle = lastOp'.social_handle]_vars
    /\ [][(lastOp'.op = "on_link_account_verified" /\ lastOp'.args.result = "Err")
            => UNCHANGED contract]_vars

\* C21 witness: alice's link request has been verified and the handle is
\* linked to her, while a claim waits in the handle's pending set.
C21_Witness ==
    /\ lastOp.op = "on_link_account_verified"
    /\ lastOp.args.result = "Ok"
    /\ linked_accounts = (HandleKey(<<"T">>, <<"a">>) :> "alice")
    /\ next_claim_id > 1

\* C22: a step that stores a claim takes the counter's value as the id, adds
\* 1 to the counter, stores under the id a record with claimed = FALSE, and
\* adds the id to the pending set of the deposit's handle key, after the ids
\* already in it; the other pending sets and records stay as they were.
C22_StoreClaim ==
    [][(next_claim_id' # next_claim_id \/ claims_by_id' # claims_by_id
            \/ handle_claims' # handle_claims) /\ lastOp'.op \in DepositOps =>
          LET id == next_claim_id
              key == SocialHandleToString(lastOp'.social_handle)
              before == IF key \in DOMAIN handle_claims THEN handle_claims[key] ELSE <<>>
          IN  /\ next_claim_id' = id + 1
              /\ DOMAIN claims_by_id' = DOMAIN claims_by_id \cup {id}
              /\ id \notin DOMAIN claims_by_id
              /\ ~claims_by_id'[id].claimed
              /\ \A old \in DOMAIN claims_by_id : claims_by_id'[old] = claims_by_id[old]
              /\ DOMAIN handle_claims' = DOMAIN handle_claims \cup {key}
              /\ handle_claims'[key] = Append(before, id)
              /\ \A k \in DOMAIN handle_claims \ {key} : handle_claims'[k] = handle_claims[k]]_vars

\* C22 witness: a token deposit has just been stored as the second claim of
\* a handle key that already had a pending set.
C22_Witness ==
    /\ lastOp.op \in {"ft_on_transfer", "nft_on_transfer"}
    /\ Len(handle_claims[SocialHandleToString(lastOp.social_handle)]) = 2
    /\ next_claim_id = 3

\* C23: every claim record has expires_at = timestamp + the expiration
\* period, its timestamp is the block timestamp of the deposit, and no step
\* changes the timestamp or the expires_at of a record.
C23_ExpiryFixedAtCreation ==
    /\ [](\A id \in DOMAIN claims_by_id :
            claims_by_id[id].expires_at = claims_by_id[id].timestamp + CLAIM_EXPIRATION_PERIOD)
    /\ [][/\ \A id \in DOMAIN claims_by_id :
                /\ claims_by_id'[id].timestamp = claims_by_id[id].timestamp
                /\ claims_by_id'[id].expires_at = claims_by_id[id].expires_at
          /\ \A id \in DOMAIN claims_by_id' \ DOMAIN claims_by_id :
                claims_by_id'[id].timestamp = now]_vars

\* C23 witness: a token claim created after time had advanced has been
\* settled, and its record still carries the creation time.
C23_Witness ==
    \E id \in DOMAIN claims_by_id :
        /\ claims_by_id[id].timestamp > 0
        /\ claims_by_id[id].claim_type.tag # "Near"
        /\ claims_by_id[id].claimed

\* C24: every ft_on_transfer receipt returns U128(0) and every
\* nft_on_transfer receipt returns false, whether the deposit was forwarded
\* to a linked account or stored as a claim.
C24_DepositKept ==
    [][/\ lastOp'.op = "ft_on_transfer" => lastOp'.ret = "U128(0)"
       /\ lastOp'.op = "nft_on_transfer" => lastOp'.ret = "false"]_vars

\* C24 witness: a token notification for a linked handle has just forwarded
\* the token and answered false.
C24_Witness ==
    /\ lastOp.op = "nft_on_transfer"
    /\ SocialHandleToString(lastOp.social_handle) \in DOMAIN linked_accounts
    /\ Len(out) = 1
    /\ lastOp.ret = "false"

\* C25: a claim receipt creates at most MAX_CLAIMS_PER_BATCH promises, each a
\* transfer for one of the first MAX_CLAIMS_PER_BATCH ids of the handle's
\* pending set, and no two for the same id.
C25_BatchCeiling ==
    [][lastOp'.op = "claim" =>
          LET key == SocialHandleToString(lastOp'.social_handle)
              ids == IF key \in DOMAIN handle_claims THEN handle_claims[key] ELSE <<>>
          IN
          /\ Len(out') <= MAX_CLAIMS_PER_BATCH
          /\ \A i \in DOMAIN out' :
                \E k \in 1..MAX_CLAIMS_PER_BATCH :
                    k <= Len(ids) /\ out'[i].then.claim_id = ids[k]
          /\ \A i, j \in DOMAIN out' :
                out'[i].then.claim_id = out'[j].then.claim_id => i = j]_vars

\* C25 witness: claim has just run on a handle with more pending ids than the
\* batch ceiling and has dispatched exactly MAX_CLAIMS_PER_BATCH transfers.
C25_Witness ==
    /\ lastOp.op = "claim"
    /\ DrainKey \in DOMAIN handle_claims
    /\ Len(handle_claims[DrainKey]) > MAX_CLAIMS_PER_BATCH
    /\ Len(out) = MAX_CLAIMS_PER_BATCH

PausableOps == {"link_account", "tip_near", "claim", "reclaim_tip", "ft_on_transfer",
                "nft_on_transfer"}

\* C26: while paused is true, link_account, tip_near, claim, reclaim_tip,
\* ft_on_transfer and nft_on_transfer panic with "Contract is paused" for
\* every caller and argument, so no receipt of these methods runs while the
\* contract is paused.
C26_PausedAborts ==
    /\ [](paused =>
            /\ \A amount \in Amounts : tip_near_panic(amount) = "Contract is paused"
            /\ \A caller \in Callers, msg \in Msgs(DrainHandles) :
                  deposit_panic(caller, msg) = "Contract is paused"
            /\ \A rh \in DrainHandles, context \in Contexts(DrainHandles), deposit \in {0, 1} :
                  link_account_panic(rh[1], rh[2], context, deposit) = "Contract is paused"
            /\ \A caller \in Accounts : claim_panic(caller, DrainKey) = "Contract is paused"
            /\ \A caller \in Accounts, claim_id \in 1..next_claim_id :
                  reclaim_tip_panic(caller, claim_id) = "Contract is paused")
    /\ [][lastOp'.op \in PausableOps => ~paused]_vars

\* C26 witness: the owner has just paused the contract while the handle is
\* linked and an unsettled claim is stored.
C26_Witness ==
    /\ lastOp.op = "pause"
    /\ paused
    /\ DrainKey \in DOMAIN linked_accounts
    /\ \E id \in DOMAIN claims_by_id : ~claims_by_id[id].claimed
    /\ claim_panic(linked_accounts[DrainKey], DrainKey) = "Contract is paused"

\* A claim has had a successful transfer of its asset exactly when its
\* claimed flag is set (settlement) or tip_reclaimed was logged for it.
\* C27: no transfer of a claim's asset completes successfully when one has
\* completed successfully for that claim before, so each claim has at most
\* one successful transfer.
C27_OneSuccessfulTransfer ==
    [][(/\ lastOp'.op = "on_transfer_complete"
        /\ lastOp'.args.result = "Ok"
        /\ lastOp'.args.claim_id \in DOMAIN claims_by_id)
       => /\ ~claims_by_id[lastOp'.args.claim_id].claimed
          /\ lastOp'.args.claim_id \notin tip_reclaimed]_vars

\* C28: no claim is both claimed (a settlement completed successfully) and
\* reclaimed (a reclaim completed successfully).
C28_NotSettledAndReclaimed ==
    \A id \in DOMAIN claims_by_id : ~(claims_by_id[id].claimed /\ id \in tip_reclaimed)

\* C29: at most one transfer per claim id is waiting for its
\* on_transfer_complete at any time.
C29_OneInFlightPerClaim ==
    \A c, d \in BagToSet(inflight) :
        (c.cb = "on_transfer_complete" /\ d.cb = "on_transfer_complete"
            /\ c.claim_id = d.claim_id)
        => (c = d /\ CopiesIn(c, inflight) = 1)

\* C30: a completion never aborts, and what it does to claims_by_id and
\* handle_claims is fixed by its own arguments and result alone: it leaves
\* handle_claims and the record of every other claim as they are, and its
\* own record's claimed flag becomes true on a successful settlement and is
\* unchanged otherwise.  Completions of different claims therefore commute,
\* and a repeated one changes nothing more, so every order of delivery ends
\* in the same claims_by_id and handle_claims.
C30_CompletionsCommute ==
    [][lastOp'.op = "on_transfer_complete" =>
          LET id == lastOp'.args.claim_id
              settles == lastOp'.args.result = "Ok" /\ lastOp'.args.reclaim_trf = "None"
          IN  /\ lastOp'.ret = "()"
              /\ handle_claims' = handle_claims
              /\ DOMAIN claims_by_id' = DOMAIN claims_by_id
              /\ \A other \in DOMAIN claims_by_id \ {id} : claims_by_id'[other] = claims_by_id[other]
              /\ id \in DOMAIN claims_by_id =>
                    claims_by_id'[id] =
                        [claims_by_id[id] EXCEPT !.claimed = claims_by_id[id].claimed \/ settles]]_vars

\* C30 witness: one claim call dispatched the transfers of claims 1 and 2,
\* and the completion of claim 2 has arrived first: claim 2 is claimed while
\* the transfer of claim 1 is still awaited.
C30_Witness ==
    /\ lastOp.op = "on_transfer_complete"
    /\ lastOp.args.claim_id = 2
    /\ lastOp.args.result = "Ok"
    /\ claims_by_id[2].claimed
    /\ ~claims_by_id[1].claimed
    /\ \E c \in BagToSet(inflight) : c.cb = "on_transfer_complete" /\ c.claim_id = 1

\* C31: link_account passes its pre-check for every account while the key
\* is not in linked_accounts, whatever verifications are in flight for it;
\* and every continuation given a successful verification writes its own
\* account under the key, also over the account another continuation has
\* committed, so the key ends linked to the requester whose verification
\* completed last.
C31_LastVerificationWins ==
    /\ [](\A rh \in ProvableHandles :
            (~paused /\ HandleKey(rh[1], rh[2]) \notin DOMAIN linked_accounts)
                => link_account_panic(rh[1], rh[2], Context("str", rh[2]), 1) = "")
    /\ [][(lastOp'.op = "on_link_account_verified" /\ lastOp'.args.result = "Ok") =>
            \E c \in BagToSet(inflight) :
                /\ c.cb = "on_link_account_verified"
                /\ c.social_handle = lastOp'.social_handle
                /\ inflight' = inflight (-) SetToBag({c})
                /\ lastOp'.ret = "()"
                /\ SocialHandleToString(c.social_handle) \in DOMAIN linked_accounts'
                /\ linked_accounts'[SocialHandleToString(c.social_handle)] = c.account]_vars

\* C31 witness: alice and bob both requested the link of the unlinked
\* handle; alice's verification completed first and she called claim, whose
\* transfer to her is still in flight; bob's verification completed after
\* that, and the handle is now linked to bob.
C31_Witness ==
    /\ lastOp.op = "on_link_account_verified"
    /\ lastOp.args.result = "Ok"
    /\ linked_accounts[HandleKey(<<"T">>, <<"a">>)] = "bob"
    /\ \E c \in BagToSet(inflight) :
          c.cb = "on_transfer_complete" /\ c.reclaim_trf = "None" /\ c.account = "alice"

\* The method of the adapter for a claim's asset variant, the contract the
\* call goes to when the asset is sent to recipient, and the asset kind
\* written into the continuation.
AdapterMethod(rec) ==
    CASE rec.claim_type.tag = "Near" -> "transfer"
      [] rec.claim_type.tag = "FungibleToken" -> "ft_transfer"
      [] OTHER -> "nft_transfer"

AdapterReceiver(rec, recipient) ==
    IF rec.claim_type.tag = "Near" THEN recipient ELSE rec.claim_type.contract_id

AssetKind(rec) ==
    CASE rec.claim_type.tag = "Near" -> "NEAR"
      [] rec.claim_type.tag = "FungibleToken" -> "FT"
      [] OTHER -> "NFT"

\* C32: a claim receipt creates one promise for each visited claim that has
\* not expired and no other promise: the call of the adapter of the claim's
\* asset variant, naming the account linked to the handle key when claim was
\* called, with the continuation on_transfer_complete(social handle, asset
\* kind, claim id, that account, None).
C32_SettleDispatch ==
    [][lastOp'.op = "claim" =>
          LET key == SocialHandleToString(lastOp'.social_handle)
              recipient == linked_accounts[key]
              live == {id \in Visited(key) : now < claims_by_id[id].expires_at}
          IN  /\ Len(out') = Cardinality(live)
              /\ \A id \in live :
                    \E i \in DOMAIN out' :
                        /\ out'[i].method = AdapterMethod(claims_by_id[id])
                        /\ out'[i].receiver = AdapterReceiver(claims_by_id[id], recipient)
                        /\ out'[i].to = recipient
                        /\ out'[i].token_id = claims_by_id[id].claim_type.token_id
                        /\ out'[i].then =
                              [cb |-> "on_transfer_complete",
                               social_handle |-> lastOp'.social_handle,
                               token_type |-> AssetKind(claims_by_id[id]),
                               claim_id |-> id, account |-> recipient, reclaim_trf |-> "None"]]_vars

\* C32 witness: claim has just dispatched the transfer of a non-fungible
\* token claim through nft_transfer of the token's contract.
C32_Witness ==
    /\ lastOp.op = "claim"
    /\ Len(out) = 1
    /\ out[1].method = "nft_transfer"
    /\ out[1].receiver = "token"
    /\ out[1].then.token_type = "NFT"

\* C33: on_transfer_complete given a success result and the reclaim marker,
\* for a claim that has a record, logs one tip_reclaimed event with the
\* claim's amount, asset kind and tipper and changes no contract state: the
\* claimed flag, the pending sets, linked_accounts and next_claim_id stay.
C33_ReclaimCompletionFrame ==
    [][(/\ lastOp'.op = "on_transfer_complete"
        /\ lastOp'.args.result = "Ok"
        /\ lastOp'.args.reclaim_trf # "None"
        /\ lastOp'.args.claim_id \in DOMAIN claims_by_id)
       => LET rec == claims_by_id[lastOp'.args.claim_id] IN
          /\ Len(log') = 1
          /\ log'[1].event = "tip_reclaimed"
          /\ log'[1].amount = rec.amount
          /\ log'[1].token_type = AssetKind(rec)
          /\ log'[1].account = rec.tipper
          /\ claims_by_id' = claims_by_id
          /\ handle_claims' = handle_claims
          /\ linked_accounts' = linked_accounts
          /\ next_claim_id' = next_claim_id]_vars

\* C33 witness: the reclaim of an expired claim has just completed
\* successfully; the claim is unclaimed and still in its handle's pending set.
C33_Witness ==
    /\ lastOp.op = "on_transfer_complete"
    /\ lastOp.args.result = "Ok"
    /\ lastOp.args.reclaim_trf = "Some(true)"
    /\ Len(log) = 1
    /\ ~claims_by_id[lastOp.args.claim_id].claimed
    /\ \E key \in DOMAIN handle_claims : lastOp.args.claim_id \in PendingIds(key)

\* C34: after a deposit receipt either a claim record has been stored for
\* the deposit, or the deposit was forwarded by a transfer whose result the
\* contract receives (a continuation is chained to it), so that a forward
\* that fails can be recorded or retried.
C34_DepositAccounted ==
    [][lastOp'.op \in DepositOps =>
          \/ /\ next_claim_id' = next_claim_id + 1
             /\ next_claim_id \in DOMAIN claims_by_id'
          \/ /\ Len(out') = 1
             /\ out'[1].then.cb # "none"]_vars

\* C35: a reclaim_tip receipt names a claim id of the pending set of the
\* key of its (platform, handle) arguments, the key the claim was created
\* under, and so does every tip_reclaimed event.
C35_ReclaimNamesClaimsHandle ==
    /\ [][lastOp'.op = "reclaim_tip" =>
            lastOp'.args.claim_id \in PendingIds(SocialHandleToString(lastOp'.social_handle))]_vars
    /\ [][\A i \in DOMAIN log' :
            log'[i].event = "tip_reclaimed" =>
                lastOp'.args.claim_id \in
                    PendingIds(SocialHandleToString(<< log'[i].platform, log'[i].handle >>))]_vars

\* C36: every id of a pending set has a record in claims_by_id, is smaller
\* than next_claim_id, occurs once in the set and is in no other key's set;
\* an id enters a pending set only as the new id of a deposit, in the set of
\* the deposit's handle key, and never leaves it for another.
C36_PendingIdsWellFormed ==
    /\ [](\A key \in DOMAIN handle_claims :
            /\ Cardinality(PendingIds(key)) = Len(handle_claims[key])
            /\ \A id \in PendingIds(key) :
                  /\ id \in DOMAIN claims_by_id
                  /\ id < next_claim_id
                  /\ \A other \in DOMAIN handle_claims \ {key} : id \notin PendingIds(other))
    /\ [][\A key \in DOMAIN handle_claims' :
            /\ PendingIds(key) \subseteq PendingIds(key)'
            /\ \A id \in PendingIds(key)' \ PendingIds(key) :
                  /\ id = next_claim_id
                  /\ lastOp'.op \in DepositOps
                  /\ key = SocialHandleToString(lastOp'.social_handle)]_vars

\* C36 witness: two handle keys have a pending set each, with one id each.
C36_Witness ==
    /\ Cardinality(DOMAIN handle_claims) = 2
    /\ \A key \in DOMAIN handle_claims : Len(handle_claims[key]) = 1
    /\ next_claim_id = 3

\* C37: every key of handle_claims has at least one claim id in its set.
C37_NoEmptyBucket ==
    \A key \in DOMAIN handle_claims : handle_claims[key] # <<>>

\* C37 witness: every claim of the handle has been settled, and the handle's
\* bucket is there with their ids.
C37_Witness ==
    /\ DOMAIN handle_claims # {}
    /\ claims_by_id # EmptyMap
    /\ \A id \in DOMAIN claims_by_id : claims_by_id[id].claimed
    /\ inflight = EmptyBag

\* C38: a continuation that runs while paused is true has its effect: given
\* a successful verification, on_link_account_verified writes its account
\* under its handle key and logs account_linked; given a successful
\* settlement transfer, on_transfer_complete sets the claimed flag of its
\* claim and logs claim_processed; neither panics nor changes paused.
C38_PauseSparesContinuations ==
    /\ [][(paused /\ lastOp'.op = "on_link_account_verified" /\ lastOp'.args.result = "Ok") =>
            /\ lastOp'.ret = "()"
            /\ paused'
            /\ Len(log') = 1
            /\ log'[1].event = "account_linked"
            /\ SocialHandleToString(lastOp'.social_handle) \in DOMAIN linked_accounts'
            /\ linked_accounts'[SocialHandleToString(lastOp'.social_handle)] = log'[1].account]_vars
    /\ [][(/\ paused
           /\ lastOp'.op = "on_transfer_complete"
           /\ lastOp'.args.result = "Ok"
           /\ lastOp'.args.reclaim_trf = "None"
           /\ lastOp'.args.claim_id \in DOMAIN claims_by_id) =>
            /\ lastOp'.ret = "()"
            /\ paused'
            /\ claims_by_id'[lastOp'.args.claim_id].claimed
            /\ Len(log') = 1
            /\ log'[1].event = "claim_processed"]_vars

\* C38 witness: the contract is paused, and the completion of a settlement
\* dispatched before the pause has just marked its claim claimed.
C38_Witness ==
    /\ paused
    /\ lastOp.op = "on_transfer_complete"
    /\ lastOp.args.result = "Ok"
    /\ lastOp.args.reclaim_trf = "None"
    /\ claims_by_id[lastOp.args.claim_id].claimed
    /\ Len(log) = 1
====
